---- MODULE Spec2Model ----
(***************************************************************************)
(* The task cache of the yarn task provider (src/src/taskProviderYarn.ts)  *)
(* as a state machine.  The module variable cachedTasks is shared by every *)
(* call of provideTasks (getAll) and invalidateTasksCacheYarn (invalidate);*)
(* a call runs synchronously up to an await (workspace.findFiles or        *)
(* util.readFile) and resumes later, so calls interleave at their awaits.  *)
(*                                                                         *)
(* A file's content is represented by the sequence of target names that    *)
(* findTargets extracts from it (the keys of the returned map, in order).  *)
(* An array is represented by its value: invalidateTasksCacheYarn and      *)
(* provideYarnfiles reach the array only through the variable cachedTasks, *)
(* which they read again after every await; tasks are compared by value,   *)
(* which leaves the result of the removal loop as with object identity     *)
(* (every task of the file is removed, the others keep their order).       *)
(* A suspended call resumes in one step: the promise settles and the       *)
(* continuation runs up to the next await, as the microtask queue does.    *)
(* util.readFile reads the file at that step and rejects when it is gone.  *)
(*                                                                         *)
(* findTargets is modelled by its JSONVisitor: the locals the handlers     *)
(* close over are the variable visitor, and a scan is the sequence of      *)
(* events the handlers are called with.  createYarnTask is a function of   *)
(* its arguments, with paths as character sequences.                       *)
(***************************************************************************)
EXTENDS Integers, Sequences, FiniteSets, Bags, TLC

\* ---------------------------------------------------------------- bounds
MaxCalls == 2      \* calls suspended at an await at the same time
MaxCount == 2      \* cap of the pass counters kept in hist
MaxDepth == 3      \* objects and arrays open at the same time in a document
MaxEntries == 2    \* entries of the tasks array of a tasks-style document
MaxSegs == 4       \* segments of the path of a config file
MaxRunning == 4    \* tasks running at the same time
MaxChanges == 3    \* configuration changes after the activation
MaxPending == 2    \* runScript calls suspended at the same time

\* ------------------------------------------------------------- workspace
None == "none"

\* cachedTasks is undefined, or an array of tasks (an empty array is truthy).
Undefined   == [defined |-> FALSE, arr |-> <<>>]
Array(arr)  == [defined |-> TRUE, arr |-> arr]

\* A path of the disk holds no file, or a file with a content.
Absent      == [exists |-> FALSE, content |-> <<>>]
File(content) == [exists |-> TRUE, content |-> content]

\* package.json files of the workspace: A and B are ordinary files, X is a
\* file whose path matches a configured exclude glob only when case is
\* ignored (findFiles returns it, util.isExcluded rejects it).
Files == {"A", "B", "X"}

\* workspace.workspaceFolders: w2 is a folder nested in w1, so B is
\* enumerated for both, and the enumeration of w2 reports B twice.
Folders == <<"w1", "w2">>

FolderFiles(folder) ==
    IF folder = "w1" THEN <<"A", "X", "B">> ELSE <<"B", "B">>

\* The contents a file is written with: the target names findTargets
\* returns for it. With overlapping calls A alternates between no target
\* and two targets and B keeps its content.
Contents(seq, f) ==
    IF f = "X" THEN {<<"build">>}
    ELSE IF seq THEN {<<>>, <<"build">>, <<"build", "test">>}
    ELSE IF f = "A" THEN {<<>>, <<"build", "test">>}
    ELSE {<<"build">>}

VARIABLES
    disk,         \* path |-> Absent, or File(content)
    cachedTasks,  \* Undefined, or Array(the sequence of cached tasks)
    calls,        \* bag of the calls suspended at an await
    ev,           \* what the last step did (observation only)
    hist,         \* what happened since the last invalidate (observation only)
    visitor,      \* the locals of findTargets that its JSONVisitor closes over
    doc,          \* where the scan of the document is (observation only)
    task,         \* the arguments and the result of createYarnTask
    runningTasks, \* extension.ts: the tasks started and not ended
    statusBarItem,\* extension.ts: the status bar item and its text
    watchers,     \* extension.ts: taskType |-> file system watcher
    config,       \* the enable<Dialect> settings
    obs,          \* what the extension was told and did (observation only)
    packageFiles, \* definition.path |-> the package file of the directory
    taskTree,     \* taskView.ts: null, or the script items of the tree
    runs,         \* bag of the runScript calls suspended at getScripts
    shown         \* what the last step of the view did (observation only)

extVars == <<runningTasks, statusBarItem, watchers, config, obs>>
viewVars == <<packageFiles, taskTree, runs, shown>>
vars == <<disk, cachedTasks, calls, ev, hist, visitor, doc, task,
          runningTasks, statusBarItem, watchers, config, obs,
          packageFiles, taskTree, runs, shown>>

\* ------------------------------------------------------- pure definitions
Min(a, b) == IF a < b THEN a ELSE b

\* util.isExcluded(path): minimatch with nocase against the exclude globs.
isExcluded(f) == f = "X"

\* readYarnfile(uri) once findTargets has returned `content`: one task per
\* key, in key order, each carrying its definition.uri and its script name.
Tasks(f, content) ==
    [i \in 1..Len(content) |-> [uri |-> f, script |-> content[i]]]

\* The tasks of file f in a task sequence.
OfFile(tasks, f) == SelectSeq(tasks, LAMBDA t: t.uri = f)
NotOfFile(tasks, f) == SelectSeq(tasks, LAMBDA t: t.uri # f)

\* removeFromArray with the splice at idx (the last index visited by the
\* loop) instead of idx2 (the index of the item).
removeFromArrayIdx(arr, item) ==
    IF \E i \in 1..Len(arr) : arr[i] = item
    THEN [i \in 1..(Len(arr) - 1) |-> arr[i]]
    ELSE arr

\* util.removeFromArray(arr, item): idx2 is the last index holding the item;
\* splice(idx2, 1) when there is one.
removeFromArray(arr, item) ==
    LET hit  == {i \in 1..Len(arr) : arr[i] = item}
        idx2 == IF hit = {} THEN 0 ELSE CHOOSE i \in hit : \A j \in hit : j <= i
    IN  IF idx2 # 0
        THEN [i \in 1..(Len(arr) - 1) |-> IF i < idx2 THEN arr[i] ELSE arr[i + 1]]
        ELSE arr

\* rmvTasks.forEach(each => util.removeFromArray(cachedTasks, each))
RECURSIVE RemoveEach(_, _)
RemoveEach(arr, rmvTasks) ==
    IF rmvTasks = <<>> THEN arr
    ELSE RemoveEach(removeFromArray(arr, Head(rmvTasks)), Tail(rmvTasks))

\* RemoveFileTasks with the removal of the old tasks left out.
RemoveFileTasksSkipped(cache, f) == cache

\* The first part of invalidateTasksCacheYarn(opt): collect the tasks whose
\* definition.uri.fsPath equals opt.fsPath and remove each from the cache.
RemoveFileTasks(cache, f) == RemoveEach(cache, OfFile(cache, f))

\* workspace.findFiles(relativePattern, excludes) for one folder: the
\* package.json files of the folder that exist now.
findFiles(folder) == SelectSeq(FolderFiles(folder), LAMBDA f: disk[f].exists)

\* visitedAdd with the add left out.
visitedAddNothing(visited, f) == visited

\* visitedFiles.add(fpath.fsPath)
visitedAdd(visited, f) == visited \cup {f}

\* SkipPaths with the test of util.isExcluded left out.
RECURSIVE SkipPathsNoExclude(_, _)
SkipPathsNoExclude(paths, visited) ==
    IF paths = <<>> THEN <<>>
    ELSE IF Head(paths) \notin visited THEN paths
    ELSE SkipPathsNoExclude(Tail(paths), visited)

\* The inner loop of detectYarnfiles skips a path that is excluded or was
\* already visited: the paths from the first one that gets read.
RECURSIVE SkipPaths(_, _)
SkipPaths(paths, visited) ==
    IF paths = <<>> THEN <<>>
    ELSE IF ~isExcluded(Head(paths)) /\ Head(paths) \notin visited THEN paths
    ELSE SkipPaths(Tail(paths), visited)

\* ------------------------------------------------------------ findTargets
\* findTargets(fsPath) visits the document text with a JSONVisitor and
\* returns the map `scripts`. The scan is a stream of events; the visitor
\* has a handler for onError, onObjectEnd, onLiteralValue and
\* onObjectProperty and none for the begin of an object or for arrays.
\* scriptOffset is written but read by onError only, whose return value is
\* dropped by the scan: it is not represented.

\* Property names and literal values of the documents. A literal is a
\* string or not (a number, a boolean, null).
Names == {"scripts", "tasks", "label", "a"}
Literals == {[str |-> TRUE,  v |-> "x"],
             [str |-> TRUE,  v |-> "y"],
             [str |-> FALSE, v |-> "1"]}

\* `let script: string;` holds undefined until a property inside the
\* scripts context assigns it; scripts[undefined] = value writes the key
\* "undefined".
UndefinedKey == "undefined"
EmptyMap == [k \in {} |-> [str |-> TRUE, v |-> "x"]]

\* scripts[key] = value
Put(map, key, value) ==
    [k \in DOMAIN map \cup {key} |-> IF k = key THEN value ELSE map[k]]

\* The locals at line 151-158 before the scan.
VisitorInit ==
    [inScripts |-> FALSE, inTasks |-> FALSE, inTaskLabel |-> None,
     script |-> UndefinedKey, scripts |-> EmptyMap]

\* onError(): returns scriptOffset, no local changes.
onError(v) == v

\* onObjectEnd(): if (inScripts) inScripts = false
onObjectEnd(v) == IF v.inScripts THEN [v EXCEPT !.inScripts = FALSE] ELSE v

\* onLiteralValue(value, offset, _length)
onLiteralValue(v, value) ==
    IF v.inScripts
    THEN [v EXCEPT !.scripts = Put(@, v.script, value)]
    ELSE IF v.inTaskLabel # None
    THEN [v EXCEPT !.scripts = IF value.str /\ v.inTaskLabel = "label"
                                THEN Put(@, v.script, value) ELSE @,
                   !.inTaskLabel = None]
    ELSE v

\* onObjectProperty(property, offset, _length)
onObjectProperty(v, property) ==
    IF property = "scripts" THEN [v EXCEPT !.inScripts = TRUE]
    ELSE IF v.inScripts THEN [v EXCEPT !.script = property]
    ELSE IF property = "tasks" THEN [v EXCEPT !.inTasks = TRUE]
    ELSE IF property = "label" /\ v.inTasks /\ v.inTaskLabel = None
    THEN [v EXCEPT !.inTaskLabel = "label"]
    ELSE [v EXCEPT !.inTaskLabel = None]

\* --------------------------------------------------------- createYarnTask
\* A path is the sequence of its characters; a segment name has one
\* character ("/r/p" stands for /repo/package.json). Paths are absolute
\* posix paths, for which uri.path and uri.fsPath are the same string.
PathNames == {"r", "s", "p"}

RECURSIVE PathsOfLen(_)
PathsOfLen(k) ==
    IF k = 0 THEN {<<>>}
    ELSE {q \o <<"/", n>> : q \in PathsOfLen(k - 1), n \in PathNames}

Paths == UNION {PathsOfLen(k) : k \in 1..MaxSegs}

\* The workspace folders a config file is materialized for, one nested in
\* the other, and the target names.
FolderUris == {<<"/", "r">>, <<"/", "r", "/", "s">>}
Targets == {"build", "test", "clean", "prebuild", "postbuild"}

\* The target names that contain "clean", "pre" or "post".
CleanNames == {"clean", "prebuild", "postbuild"}

\* The literal a target is bound to in the config file (the script text).
Values == {"x", "y"}

\* String.prototype.lastIndexOf, substring (indices from 0, -1: not found)
lastIndexOf(str, ch) ==
    LET hit == {i \in 1..Len(str) : str[i] = ch}
    IN  IF hit = {} THEN -1
        ELSE (CHOOSE i \in hit : \A j \in hit : j <= i) - 1

Clamp(str, i) == IF i < 0 THEN 0 ELSE Min(i, Len(str))

substring(str, start, end) ==
    LET a == Clamp(str, start)
        b == Clamp(str, end)
    IN  SubSeq(str, Min(a, b) + 1, IF a < b THEN b ELSE a)

substringFrom(str, start) == substring(str, start, Len(str))

\* path.basename, path.dirname of an absolute path with no trailing slash
basename(path) == substringFrom(path, lastIndexOf(path, "/") + 1)

\* dirname with the separator kept at the end.
dirnameWithSeparator(path) == substring(path, 0, lastIndexOf(path, "/") + 1)

dirname(path) ==
    LET i == lastIndexOf(path, "/")
    IN  IF i = -1 THEN <<".">>
        ELSE IF i = 0 THEN <<"/">>
        ELSE substring(path, 0, i)

\* getCommand(folder, relativePath, cmd): the alternatives are commented out
getCommand(folder, relativePath, cmd) == "yarn"

\* getRelativePath with the separator after the folder root kept.
getRelativePathKeepsSeparator(folder, uri) ==
    LET absolutePath == substring(uri, 0, lastIndexOf(uri, "/") + 1)
    IN  substringFrom(absolutePath, Len(folder))

\* getRelativePath(folder, uri), folder given
getRelativePath(folder, uri) ==
    LET absolutePath == substring(uri, 0, lastIndexOf(uri, "/") + 1)
    IN  substringFrom(absolutePath, Len(folder) + 1)

\* createYarnTask(target, cmd, folder, uri): new Task(kind, folder, target,
\* 'yarn', new ShellExecution('npx', args, {cwd}), undefined)
createYarnTask(target, cmd, folder, uri) ==
    LET relativePath == getRelativePath(folder, uri)
    IN  [definition |-> [type |-> "yarn", script |-> target,
                         path |-> IF Len(relativePath) # 0 THEN relativePath
                                  ELSE <<>>,
                         fileName |-> basename(uri), uri |-> uri],
         scope |-> folder,
         name |-> target,
         source |-> "yarn",
         group |-> "undefined",
         execution |-> [command |-> "npx",
                        args |-> <<getCommand(folder, relativePath, cmd), target>>,
                        cwd |-> dirname(uri)]]

\* uri is the path of a file inside the folder.
IsUnder(folder, uri) ==
    /\ Len(uri) > Len(folder) + 1
    /\ SubSeq(uri, 1, Len(folder) + 1) = folder \o <<"/">>

\* ReadTask with the script text of the file as the runner.
ReadTaskValueAsRunner(target, value, folder, uri) ==
    [createYarnTask(target, target, folder, uri) EXCEPT
        !.group = "Build", !.execution.args[1] = value]

\* The body of the forEach of readYarnfile for the key `target` of the
\* map findTargets returned, bound there to `value`: the value is not
\* used, and every task gets TaskGroup.Build.
ReadTask(target, value, folder, uri) ==
    [createYarnTask(target, target, folder, uri) EXCEPT !.group = "Build"]

\* NpmScript.constructor: the context value and the icon of the tree item
\* of a task, by its group.
NpmScript(t) ==
    [label |-> t.name,
     contextValue |-> IF t.group = "Rebuild" THEN "debugScript" ELSE "script",
     iconPath |-> IF t.group = "Clean" THEN "prepostscript.svg" ELSE "script.svg"]

\* The task before createYarnTask is called, and the calls readYarnfile
\* makes: a target of a config file, with the folder the file is in.
BlankTask == createYarnTask("", "", <<>>, <<>>)
NoTask == [made |-> FALSE, target |-> "", value |-> "", folder |-> <<>>,
           uri |-> <<>>, result |-> BlankTask]
TaskInputs ==
    {[NoTask EXCEPT !.target = t, !.value = v, !.folder = f, !.uri = u] :
        t \in Targets, v \in Values,
        f \in FolderUris,
        u \in {q \in Paths : \E g \in FolderUris : IsUnder(g, q)}}

\* ----------------------------------------------------- extension: status
\* The tasks of the start and end events: three tasks of a provider and a
\* composite task.
PlainIds == {"t1", "t2", "t3"}
RunTasks ==
    {[id |-> i, type |-> "yarn"] : i \in PlainIds}
        \cup {[id |-> "c", type |-> "$composite"]}

\* The text without the singular form.
statusTextPlural(n) ==
    IF n = 0 THEN <<"$(gear) Task Explorer">>
    ELSE <<"$(gear) ", ToString(n), " tasks running">>

\* The text updateStatusBarItem sets for n running tasks (lines 117-125).
statusText(n) ==
    IF n = 0 THEN <<"$(gear) Task Explorer">>
    ELSE IF n = 1 THEN <<"$(gear) 1 task running">>
    ELSE <<"$(gear) ", ToString(n), " tasks running">>

NoItem == [defined |-> FALSE, text |-> <<>>]

\* updateStatusBarItem(task, running): the list and the text it leaves.
\* removeFromArray has no await: it has run when the length is read.
updateStatusBarItem(running, item, t, isRunning) ==
    IF t.type = "$composite" THEN [runningTasks |-> running, item |-> item]
    ELSE LET list == IF ~isRunning THEN removeFromArray(running, t)
                     ELSE Append(running, t)
         IN  [runningTasks |-> list,
              item |-> [item EXCEPT !.text = statusText(Len(list))]]

\* --------------------------------------------------- extension: watchers
\* The dialects with a file watcher that are represented, each with the
\* glob of its files, and the task types watchers are registered under.
Dialects == {"bash", "gradle", "grunt", "make", "npm"}
DialectSeq == <<"bash", "gradle", "grunt", "make", "npm">>
TaskTypeSeq == <<"bash", "grunt", "npm">>
TaskTypes == {"bash", "grunt", "npm"}
Blob(d) ==
    CASE d = "bash"   -> "**/*.sh"
      [] d = "gradle" -> "**/*.gradle"
      [] d = "grunt"  -> "**/gruntfile.js"
      [] d = "make"   -> "**/Makefile"
      [] d = "npm"    -> "**/package.json"
Blobs == {Blob(d) : d \in Dialects}
Kinds == {"change", "delete", "create"}

\* A listener: _e => refreshTree(taskType, _e), or _e => undefined.
Refresher(taskType) == [refresh |-> TRUE, taskType |-> taskType]
Nothing == [refresh |-> FALSE, taskType |-> ""]

NoWatcher ==
    [defined |-> FALSE, blob |-> "", change |-> <<>>, delete |-> <<>>,
     create |-> <<>>]

\* watcher.onDidChange / onDidDelete / onDidCreate (listener): an event of
\* the vscode API adds the listener to those it has.
Listen(watcher, isScriptType, listener) ==
    [watcher EXCEPT
        !.change = IF isScriptType # "true" THEN Append(@, listener) ELSE @,
        !.delete = Append(@, listener),
        !.create = Append(@, listener)]

\* registerFileWatcher(context, taskType, fileBlob, isScriptType, enabled);
\* an optional boolean is "true", "false" or "undefined".
registerFileWatcher(w, taskType, fileBlob, isScriptType, enabled) ==
    LET watcher == w[taskType]
    IN  IF enabled # "false"
        THEN LET made == IF ~watcher.defined
                         THEN [NoWatcher EXCEPT !.defined = TRUE, !.blob = fileBlob]
                         ELSE watcher
             IN  [w EXCEPT ![taskType] =
                      Listen(made, isScriptType, Refresher(taskType))]
        ELSE IF watcher.defined
        THEN [w EXCEPT ![taskType] = Listen(watcher, isScriptType, Nothing)]
        ELSE w

\* The call registerFileWatchers makes for an enabled dialect.
RegisterAtActivation(w, d) ==
    CASE d = "bash"   -> registerFileWatcher(w, "bash", Blob(d), "true", "undefined")
      [] d = "gradle" -> registerFileWatcher(w, "grunt", Blob(d), "undefined", "undefined")
      [] d = "grunt"  -> registerFileWatcher(w, "grunt", Blob(d), "undefined", "undefined")
      [] d = "make"   -> registerFileWatcher(w, "bash", Blob(d), "undefined", "undefined")
      [] d = "npm"    -> registerFileWatcher(w, "npm", Blob(d), "undefined", "undefined")

\* registerFileWatchers(context): the enabled dialects in source order.
RECURSIVE RegisterFrom(_, _, _)
RegisterFrom(w, cfg, i) ==
    IF i > Len(DialectSeq) THEN w
    ELSE RegisterFrom(IF cfg[DialectSeq[i]] THEN RegisterAtActivation(w, DialectSeq[i])
                      ELSE w,
                      cfg, i + 1)
registerFileWatchers(w, cfg) == RegisterFrom(w, cfg, 1)

Opt(b) == IF b THEN "true" ELSE "false"

\* processConfigChanges for an event that affects taskExplorer.enable<d>:
\* for Gradle the setting is passed in the place of isScriptType.
processConfigChanges(w, cfg, d) ==
    CASE d = "bash"   -> registerFileWatcher(w, "bash", Blob(d), "true", Opt(cfg[d]))
      [] d = "gradle" -> registerFileWatcher(w, "grunt", Blob(d), Opt(cfg[d]), "undefined")
      [] d = "grunt"  -> registerFileWatcher(w, "grunt", Blob(d), "false", Opt(cfg[d]))
      [] d = "make"   -> registerFileWatcher(w, "bash", Blob(d), "false", Opt(cfg[d]))
      [] d = "npm"    -> registerFileWatcher(w, "npm", Blob(d), "false", Opt(cfg[d]))

\* The listeners of a watcher for a kind of event.
ListenersOf(watcher, kind) ==
    CASE kind = "change" -> watcher.change
      [] kind = "delete" -> watcher.delete
      [] kind = "create" -> watcher.create

\* The task types refreshTree is called with when a file that matches
\* blob is changed, deleted or created: every watcher on the blob fires
\* its listeners of the kind.
RECURSIVE RefreshesFrom(_, _, _, _)
RefreshesFrom(w, blob, kind, i) ==
    IF i > Len(TaskTypeSeq) THEN <<>>
    ELSE LET watcher == w[TaskTypeSeq[i]]
             fired == IF watcher.defined /\ watcher.blob = blob
                      THEN SelectSeq(ListenersOf(watcher, kind),
                                     LAMBDA l : l.refresh)
                      ELSE <<>>
         IN  [j \in 1..Len(fired) |-> fired[j].taskType]
                 \o RefreshesFrom(w, blob, kind, i + 1)
Refreshes(w, blob, kind) == RefreshesFrom(w, blob, kind, 1)

DefaultConfig == [d \in Dialects |-> TRUE]

NoLast == [on |-> FALSE, blob |-> "", kind |-> "", tags |-> <<>>]
ObsInit ==
    [open |-> [i \in PlainIds |-> 0],
     status |-> [d \in Dialects |-> "init"],
     changes |-> 0,
     task |-> "",
     last |-> NoLast]

ExtInit ==
    /\ runningTasks = <<>>
    /\ statusBarItem = NoItem
    /\ watchers = [k \in TaskTypes |-> NoWatcher]
    /\ config = DefaultConfig
    /\ obs = ObsInit

\* ------------------------------------------------------------- task view
\* The package files are that of the workspace folder (definition.path '')
\* and that of its directory s (definition.path 's/'); a file that exists
\* has a set of script names.
PackagePaths == {<<>>, <<"s", "/">>}
ScriptNames == {"build", "test"}
NoPackage == [exists |-> FALSE, scripts |-> {}]
Package(scripts) == [exists |-> TRUE, scripts |-> scripts]
PackageStates == {NoPackage} \cup {Package(k) : k \in SUBSET ScriptNames}

\* tasks.getTaskName(script, relativePath): the script, followed by the
\* directory without its last separator when the file is not in the root.
getTaskName(script, relativePath) ==
    IF relativePath # <<>>
    THEN <<script, " - ">> \o SubSeq(relativePath, 1, Len(relativePath) - 1)
    ELSE <<script>>

\* tasks.createTask for a script of the package file in relativePath.
createTask(script, relativePath) ==
    [name |-> getTaskName(script, relativePath),
     definition |-> [type |-> "npm", script |-> script, path |-> relativePath]]

\* tasks.fetchTasks(): the tasks of the scripts the package files hold now.
fetchTasks(files) ==
    {createTask(k, q) : <<k, q>> \in
        {x \in ScriptNames \X PackagePaths :
            files[x[2]].exists /\ x[1] \in files[x[2]].scripts}}

\* tasks.getScripts(getPackageJsonUriFromTask(task)): the scripts of the
\* package file of the task as it is read, undefined when there is no file.
NoScriptMap == [defined |-> FALSE, keys |-> {}]
getScripts(files, t) ==
    IF files[t.definition.path].exists
    THEN [defined |-> TRUE, keys |-> files[t.definition.path].scripts]
    ELSE NoScriptMap

\* scriptIsValid that compares the task name with the bare script name.
scriptIsValidBareName(scripts, t) ==
    \E script \in scripts.keys : t.name = <<script>>

\* scriptIsValid(scripts, task): some key of scripts has the label of the
\* task; for (const script in undefined) runs no iteration.
scriptIsValid(scripts, t) ==
    \E script \in scripts.keys :
        t.name = getTaskName(script, t.definition.path)

\* buildTaskTree(taskItems): one NpmScript item per task (the folder and
\* package containers are left out).
buildTaskTree(taskItems) == [built |-> TRUE, items |-> taskItems]
Null == [built |-> FALSE, items |-> {}]

NoMessage == [key |-> "", arg |-> <<>>]
\* scriptNotValid(task): the error message that is shown.
scriptNotValid(t) == [key |-> "scriptInvalid", arg |-> t.name]

NoShown ==
    [op |-> "", task |-> createTask("build", <<>>), file |-> NoPackage,
     executed |-> FALSE, message |-> NoMessage]

ViewInit ==
    /\ packageFiles = [q \in PackagePaths |-> NoPackage]
    /\ taskTree = Null
    /\ runs = EmptyBag
    /\ shown = NoShown

\* ------------------------------------------------------------ observation
NoExpect == [on |-> FALSE, file |-> None, tasks |-> {}]

HistInit ==
    [uninit |-> TRUE, passes |-> 0, ok |-> 0, reset |-> FALSE,
     expect |-> NoExpect, inval |-> {}]

\* The last event of a scan: its kind, the nesting depth it came at, the
\* value of inScripts its handler tested, whether it came inside an object
\* that is the value of a "scripts" property, and for a literal whether it
\* is a string, whether the handler bound it, and whether a property event
\* had come while a label was pending.
AtNone ==
    [kind |-> "none", depth |-> 0, inScripts |-> FALSE, inside |-> FALSE,
     str |-> FALSE, bound |-> FALSE, cancelled |-> FALSE]

\* The scan of a document: the open objects and arrays (outermost first),
\* the property whose value comes next, and what the document is so far:
\* plainS, a document whose top-level object has literal properties and a
\* "scripts" object of string literals (want: its keys and their last
\* values); plainT, a document whose top-level object has literal
\* properties and a "tasks" array of objects with literal properties
\* with at most one "label" each (entries: how many, labelled: the open
\* entry has its label, labels: the string labels of the entries, in
\* order); error, an Error event came
\* (late: after it, the value of a key of the top-level scripts object
\* was written to the map `scripts`).
DocInit ==
    [ctx |-> <<>>, key |-> None, done |-> FALSE, error |-> FALSE,
     plainS |-> TRUE, hasS |-> FALSE, want |-> EmptyMap,
     plainT |-> TRUE, hasT |-> FALSE, entries |-> 0, labelled |-> FALSE,
     labels |-> <<>>,
     late |-> FALSE, cancelled |-> FALSE, at |-> AtNone]

EvNone ==
    [op |-> "none", file |-> None, call |-> FALSE, done |-> FALSE,
     status |-> "-", value |-> <<>>, before |-> Undefined, reads |-> {},
     discovery |-> FALSE, hist |-> HistInit,
     at |-> "-", partial |-> <<>>, enum |-> {}, again |-> {},
     reread |-> FALSE, wasReset |-> FALSE]

\* ------------------------------------------------------------------- Init
CacheInit ==
    /\ disk = [f \in Files |->
                 IF f = "A" THEN File(<<"build", "test">>)
                 ELSE IF f = "B" THEN File(<<"build">>)
                 ELSE Absent]
    /\ cachedTasks = Undefined
    /\ calls = EmptyBag
    /\ ev = EvNone
    /\ hist = HistInit

Init ==
    /\ CacheInit
    /\ visitor = VisitorInit
    /\ doc = DocInit
    /\ task = NoTask
    /\ ExtInit
    /\ ViewInit

\* The view is constructed in a workspace with some package files.
ViewStart ==
    /\ CacheInit
    /\ visitor = VisitorInit
    /\ doc = DocInit
    /\ task = NoTask
    /\ ExtInit
    /\ packageFiles \in [PackagePaths -> PackageStates]
    /\ taskTree = Null
    /\ runs = EmptyBag
    /\ shown = NoShown

\* The extension is loaded with some settings.
WatchInit ==
    /\ CacheInit
    /\ visitor = VisitorInit
    /\ doc = DocInit
    /\ task = NoTask
    /\ runningTasks = <<>>
    /\ statusBarItem = NoItem
    /\ watchers = [k \in TaskTypes |-> NoWatcher]
    /\ config \in [Dialects -> BOOLEAN]
    /\ obs = ObsInit
    /\ ViewInit

\* createYarnTask is about to be called with some target, folder and file.
TaskInit ==
    /\ CacheInit
    /\ visitor = VisitorInit
    /\ doc = DocInit
    /\ task \in {t \in TaskInputs : IsUnder(t.folder, t.uri)}
    /\ ExtInit
    /\ ViewInit

\* ---------------------------------------------------------------- helpers
Remove(c)      == calls (-) SetToBag({c})
Replace(c, c2) == Remove(c) (+) SetToBag({c2})
InFlight       == BagToSet(calls)

\* A call may be issued: always when calls overlap; in the sequential
\* specification only when no other call is in flight.
CanCall(seq) == seq => calls = EmptyBag

\* One more call can be suspended.
CanSuspend == BagCardinality(calls) < MaxCalls

\* The observation variables record the history the claims speak of. The
\* claims about calls issued one after another speak of a call's own reads,
\* of the cache it started from and of the passes run so far: these are
\* recorded in the sequential specification only.
Obs(seq, e) ==
    IF seq THEN e
    ELSE [e EXCEPT !.value = <<>>, !.reads = {}, !.at = "-", !.partial = <<>>,
                   !.before = IF e.op = "invalidate" /\ e.call /\ e.done
                                 /\ e.file # None
                              THEN @ ELSE Undefined,
                   !.hist = [HistInit EXCEPT !.reset = e.hist.reset]]

Track(seq, h) ==
    IF seq THEN h
    ELSE [h EXCEPT !.uninit = TRUE, !.passes = 0, !.ok = 0, !.expect = NoExpect]

NewCall(seq, kind, opt) ==
    [kind |-> kind, pc |-> "find", opt |-> opt, folder |-> 1, paths |-> <<>>,
     cur |-> None, allTasks |-> <<>>, visited |-> {},
     before |-> IF seq THEN cachedTasks ELSE Undefined,
     reads |-> {}, enum |-> {}, again |-> {}, reread |-> FALSE,
     wasReset |-> FALSE]

Bump(n) == Min(n + 1, MaxCount)

\* hist after a step of an invalidate call: the counters of getAll restart.
\* stale: the files of this invalidation that a pass in flight has already
\* read with a content that differs from the content on disk now.
HistInvalidate(seq, opt, cacheAfter, returned) ==
    LET stale == {f \in Files :
                     /\ f = opt
                     /\ \E c \in InFlight :
                           /\ c.kind = "getAll"
                           /\ f \in c.visited
                           /\ OfFile(c.allTasks, f) #
                                Tasks(f, disk[f].content)}
    IN  Track(seq,
        [hist EXCEPT !.uninit = ~cacheAfter.defined,
                     !.passes = 0,
                     !.ok     = 0,
                     !.expect = NoExpect,
                     !.reset  = IF opt = None /\ returned THEN TRUE ELSE @,
                     !.inval  = @ \cup stale])

\* ---------------------------------------------- provideTasks / getAll
\* The cache test of provideYarnfiles, true when a discovery pass is needed.
\* NeedsDiscoveryEmptyToo also takes an empty array for a missing cache.
NeedsDiscoveryEmptyToo == ~cachedTasks.defined \/ Len(cachedTasks.arr) = 0

\* if (!cachedTasks)
NeedsDiscovery == ~cachedTasks.defined

\* provideYarnfiles with the cache initialized: returns cachedTasks.
GetAllCached(seq) ==
    /\ CanCall(seq)
    /\ ~NeedsDiscovery
    /\ ev' = Obs(seq, [EvNone EXCEPT !.op = "getAll", !.call = TRUE, !.done = TRUE,
                            !.status = "ok", !.value = cachedTasks.arr,
                            !.before = cachedTasks, !.hist = hist])
    /\ hist' = Track(seq, [hist EXCEPT !.reset = FALSE, !.expect = NoExpect])
    /\ UNCHANGED <<disk, cachedTasks, calls>>

\* provideYarnfiles with the cache uninitialized: detectYarnfiles starts and
\* suspends at the findFiles of the first folder.
GetAllDiscover(seq) ==
    /\ CanCall(seq)
    /\ CanSuspend
    /\ NeedsDiscovery
    /\ calls' = calls (+) SetToBag({NewCall(seq, "getAll", None)})
    /\ ev' = Obs(seq, [EvNone EXCEPT !.op = "getAll", !.call = TRUE, !.discovery = TRUE,
                            !.hist = hist])
    /\ hist' = Track(seq, [hist EXCEPT !.reset = FALSE, !.expect = NoExpect,
                                       !.passes = Bump(@)])
    /\ UNCHANGED <<disk, cachedTasks>>

\* detectYarnfiles continues with the paths c2.paths still to look at: it
\* suspends at the next file read or at the next folder's findFiles, or it
\* returns allTasks, which provideYarnfiles assigns to cachedTasks and returns.
DiscoveryContinue(seq, c, c2) ==
    LET rest == SkipPaths(c2.paths, c2.visited)
    IN  IF rest # <<>>
        THEN /\ calls' = Replace(c, [c2 EXCEPT !.pc = "read", !.cur = Head(rest),
                                               !.paths = Tail(rest)])
             /\ ev' = Obs(seq, [EvNone EXCEPT !.op = "getAll"])
             /\ UNCHANGED <<cachedTasks, hist>>
        ELSE IF c2.folder < Len(Folders)
        THEN /\ calls' = Replace(c, [c2 EXCEPT !.pc = "find", !.folder = @ + 1,
                                               !.cur = None, !.paths = <<>>])
             /\ ev' = Obs(seq, [EvNone EXCEPT !.op = "getAll"])
             /\ UNCHANGED <<cachedTasks, hist>>
        ELSE /\ cachedTasks' = Array(c2.allTasks)
             /\ calls' = Remove(c)
             /\ ev' = Obs(seq, [EvNone EXCEPT !.op = "getAll", !.done = TRUE,
                                     !.status = "ok", !.value = c2.allTasks,
                                     !.before = c2.before, !.reads = c2.reads,
                                     !.enum = c2.enum, !.again = c2.again,
                                     !.reread = c2.reread,
                                     !.discovery = TRUE, !.hist = hist])
             /\ hist' = Track(seq, [hist EXCEPT !.ok = Bump(@)])

\* The paths a sequence holds more than once.
Repeated(paths) ==
    {paths[i] : i \in {j \in 1..Len(paths) : \E k \in 1..(j - 1) : paths[k] = paths[j]}}

\* workspace.findFiles resolves for the folder the pass is at.
FindResume(seq, c) ==
    /\ c.kind = "getAll" /\ c.pc = "find"
    /\ LET paths == findFiles(Folders[c.folder])
           found == {paths[i] : i \in 1..Len(paths)}
       IN  DiscoveryContinue(seq, c,
               [c EXCEPT !.paths = paths,
                         !.enum  = IF seq THEN @ \cup found ELSE @,
                         !.again = IF seq
                                   THEN @ \cup (found \cap c.enum) \cup Repeated(paths)
                                   ELSE @])
    /\ UNCHANGED disk

\* FindFail with a catch that returns the tasks collected so far, which
\* provideYarnfiles then caches and returns.
FindFailReturnsPartial(seq, c) ==
    /\ c.kind = "getAll" /\ c.pc = "find"
    /\ calls' = Remove(c)
    /\ cachedTasks' = Array(c.allTasks)
    /\ ev' = Obs(seq, [EvNone EXCEPT !.op = "getAll", !.done = TRUE, !.status = "ok",
                            !.value = c.allTasks,
                            !.before = c.before, !.reads = c.reads,
                            !.at = "find", !.partial = c.allTasks,
                            !.discovery = TRUE, !.hist = hist])
    /\ UNCHANGED <<disk, hist>>

\* workspace.findFiles rejects: detectYarnfiles rejects with the error and
\* so does provideYarnfiles, before its assignment to cachedTasks.
FindFail(seq, c) ==
    /\ c.kind = "getAll" /\ c.pc = "find"
    /\ calls' = Remove(c)
    /\ ev' = Obs(seq, [EvNone EXCEPT !.op = "getAll", !.done = TRUE, !.status = "error",
                            !.before = c.before, !.reads = c.reads,
                            !.at = "find", !.partial = c.allTasks,
                            !.discovery = TRUE, !.hist = hist])
    /\ UNCHANGED <<disk, cachedTasks, hist>>

\* util.readFile settles for the file the pass is reading: rejected when the
\* file is gone (the pass rejects), else readYarnfile returns its tasks.
ReadResume(seq, c) ==
    /\ c.kind = "getAll" /\ c.pc = "read"
    /\ IF ~disk[c.cur].exists
       THEN /\ calls' = Remove(c)
            /\ ev' = Obs(seq, [EvNone EXCEPT !.op = "getAll", !.done = TRUE,
                                    !.status = "error", !.before = c.before,
                                    !.reads = c.reads, !.discovery = TRUE,
                                    !.at = "read", !.hist = hist])
            /\ UNCHANGED <<cachedTasks, hist>>
       ELSE DiscoveryContinue(seq, c,
                [c EXCEPT !.allTasks = @ \o Tasks(c.cur, disk[c.cur].content),
                          !.visited  = visitedAdd(@, c.cur),
                          !.reads    = IF seq THEN @ \cup {c.cur} ELSE @,
                          !.reread   = IF seq THEN @ \/ c.cur \in c.reads ELSE @])
    /\ UNCHANGED disk

\* ------------------------------------- invalidateTasksCacheYarn / invalidate
\* A suspended invalidateTasksCacheYarn(f) records that the call without a
\* file ran while it was at its await (observation only).
MarkReset(c) ==
    IF c.kind = "invalidate" THEN [c EXCEPT !.wasReset = TRUE] ELSE c

\* invalidateTasksCacheYarn(opt) with no opt, or with cachedTasks undefined:
\* the guarded block is skipped and cachedTasks is set to undefined.
InvalidateReset(seq, opt) ==
    /\ CanCall(seq)
    /\ opt = None \/ ~cachedTasks.defined
    /\ cachedTasks' = Undefined
    /\ ev' = Obs(seq, [EvNone EXCEPT !.op = "invalidate", !.file = opt, !.call = TRUE,
                            !.done = TRUE, !.status = "ok",
                            !.before = cachedTasks, !.hist = hist])
    /\ hist' = HistInvalidate(seq, opt, Undefined, TRUE)
    /\ calls' = IF opt = None THEN BagOfAll(MarkReset, calls) ELSE calls
    /\ UNCHANGED disk

\* Collapse with the reset to undefined left out.
CollapseKeepsEmpty(arr) == Array(arr)

\* What lines 67-72 leave in cachedTasks: the array when it holds a task,
\* else undefined.
Collapse(arr) == IF Len(arr) > 0 THEN Array(arr) ELSE Undefined

\* invalidateTasksCacheYarn(f) with a cache, f not on disk: the tasks of f
\* are removed, util.pathExists is false, and the call returns.
InvalidateMissing(seq, f) ==
    /\ CanCall(seq)
    /\ cachedTasks.defined
    /\ ~disk[f].exists
    /\ cachedTasks' = Collapse(RemoveFileTasks(cachedTasks.arr, f))
    /\ ev' = Obs(seq, [EvNone EXCEPT !.op = "invalidate", !.file = f, !.call = TRUE,
                            !.done = TRUE, !.status = "ok",
                            !.before = cachedTasks, !.hist = hist])
    /\ hist' = HistInvalidate(seq, f, cachedTasks', TRUE)
    /\ UNCHANGED <<disk, calls>>

\* invalidateTasksCacheYarn(f) with a cache, f on disk: the tasks of f are
\* removed, util.pathExists is true, and the call suspends at the read of f.
InvalidateStart(seq, f) ==
    /\ CanCall(seq)
    /\ CanSuspend
    /\ cachedTasks.defined
    /\ disk[f].exists
    /\ cachedTasks' = Array(RemoveFileTasks(cachedTasks.arr, f))
    /\ calls' = calls (+) SetToBag({[NewCall(seq, "invalidate", f) EXCEPT
                                        !.pc = "read", !.cur = f]})
    /\ ev' = Obs(seq, [EvNone EXCEPT !.op = "invalidate", !.file = f, !.call = TRUE,
                            !.before = cachedTasks, !.hist = hist])
    /\ hist' = HistInvalidate(seq, f, cachedTasks', FALSE)
    /\ UNCHANGED disk

\* The task set the round trip of an invalidation is expected to leave: the
\* tasks of the other files as they were before the call, and one task per
\* target of the content read.
Expected(c, content) ==
    {c.before.arr[i] : i \in {j \in 1..Len(c.before.arr) : c.before.arr[j].uri # c.opt}}
        \cup {[uri |-> c.opt, script |-> content[i]] : i \in 1..Len(content)}

\* util.readFile settles for a suspended invalidateTasksCacheYarn(f):
\* rejected when f is gone, and the call rejects; else the tasks of f are
\* pushed onto cachedTasks, which throws when cachedTasks is undefined by now.
InvalidateResume(seq, c) ==
    /\ c.kind = "invalidate" /\ c.pc = "read"
    /\ calls' = Remove(c)
    /\ IF ~disk[c.opt].exists \/ ~cachedTasks.defined
       THEN /\ ev' = Obs(seq, [EvNone EXCEPT !.op = "invalidate", !.file = c.opt,
                                    !.done = TRUE, !.status = "error",
                                    !.before = c.before,
                                    !.reads = IF disk[c.opt].exists
                                              THEN {c.opt} ELSE {},
                                    !.wasReset = c.wasReset,
                                    !.hist = hist])
            /\ hist' = HistInvalidate(seq, c.opt, cachedTasks, TRUE)
            /\ UNCHANGED cachedTasks
       ELSE /\ cachedTasks' =
                  Collapse(cachedTasks.arr \o Tasks(c.opt, disk[c.opt].content))
            /\ ev' = Obs(seq, [EvNone EXCEPT !.op = "invalidate", !.file = c.opt,
                                    !.done = TRUE, !.status = "ok",
                                    !.before = c.before, !.reads = {c.opt},
                                    !.wasReset = c.wasReset,
                                    !.hist = hist])
            /\ hist' = Track(seq,
                  [HistInvalidate(seq, c.opt, cachedTasks', TRUE) EXCEPT
                      !.expect = [on |-> TRUE, file |-> c.opt,
                                  tasks |-> Expected(c, disk[c.opt].content)]])
    /\ UNCHANGED disk

\* ------------------------------------------------------------ environment
\* A file is created, or edited to another content.
WriteFile(f, content) ==
    /\ disk[f] # File(content)
    /\ disk' = [disk EXCEPT ![f] = File(content)]
    /\ ev' = EvNone
    /\ hist' = [hist EXCEPT !.inval = @ \ {f}]
    /\ UNCHANGED <<cachedTasks, calls>>

\* A file is deleted.
DeleteFile(f) ==
    /\ disk[f].exists
    /\ disk' = [disk EXCEPT ![f] = Absent]
    /\ ev' = EvNone
    /\ hist' = [hist EXCEPT !.inval = @ \ {f}]
    /\ UNCHANGED <<cachedTasks, calls>>

\* ------------------------------------------------------------------- Next
Step(seq, files) ==
    \/ GetAllCached(seq)
    \/ GetAllDiscover(seq)
    \/ \E c \in InFlight : FindResume(seq, c)
    \/ \E c \in InFlight : FindFail(seq, c)
    \/ \E c \in InFlight : ReadResume(seq, c)
    \/ \E opt \in files \cup {None} : InvalidateReset(seq, opt)
    \/ \E f \in files : InvalidateMissing(seq, f)
    \/ \E f \in files : InvalidateStart(seq, f)
    \/ \E c \in InFlight : InvalidateResume(seq, c)
    \/ \E f \in files : \E content \in Contents(seq, f) : WriteFile(f, content)
    \/ \E f \in files : DeleteFile(f)

\* Calls overlap at their awaits; the files that change are A and B.
Next == Step(FALSE, {"A", "B"}) /\ UNCHANGED <<visitor, doc, task, extVars, viewVars>>
Spec == Init /\ [][Next]_vars

\* Calls are issued one after another: a call is issued when no call is in
\* flight.
SeqNext == Step(TRUE, Files) /\ UNCHANGED <<visitor, doc, task, extVars, viewVars>>
SeqSpec == Init /\ [][SeqNext]_vars

\* ------------------------------------------------------- the scan (visit)
\* visit(documentText, visitor) at line 213 calls the handlers in document
\* order; after an Error event the scan goes on with the rest of the text.
cacheVars == <<disk, cachedTasks, calls, ev, hist>>

IsObject(role) == role \in {"top", "scripts", "nscripts", "entry", "obj"}
Top == doc.ctx[Len(doc.ctx)]
Pop == SubSeq(doc.ctx, 1, Len(doc.ctx) - 1)
Inside == \E i \in 1..Len(doc.ctx) : doc.ctx[i] \in {"scripts", "nscripts"}

\* A property name comes next; a value comes next.
KeyPos   == ~doc.done /\ doc.ctx # <<>> /\ IsObject(Top) /\ doc.key = None
ValuePos == ~doc.done /\ doc.ctx # <<>> /\ (IsObject(Top) => doc.key # None)

\* What an object or an array that begins here is.
ObjectRole ==
    IF doc.ctx = <<>> THEN "top"
    ELSE IF doc.key = "scripts"
    THEN (IF Len(doc.ctx) = 1 THEN "scripts" ELSE "nscripts")
    ELSE IF Top = "tasks" THEN "entry"
    ELSE "obj"
ArrayRole == IF Len(doc.ctx) = 1 /\ doc.key = "tasks" THEN "tasks" ELSE "arr"

\* The documents a specification scans: "scripts", the documents that stay
\* plainS; "tasks", the documents that stay plainT; "any", every document,
\* with Error events. The observation record keeps the reference values
\* of the style only.
Norm(style, d) ==
    [d EXCEPT !.plainS = @ /\ style = "scripts",
              !.hasS   = @ /\ style = "scripts",
              !.want   = IF d.plainS /\ style = "scripts" THEN @ ELSE EmptyMap,
              !.plainT = @ /\ style = "tasks",
              !.hasT   = @ /\ style = "tasks",
              !.entries = IF d.plainT /\ style = "tasks" THEN @ ELSE 0,
              !.labelled = @ /\ d.plainT /\ style = "tasks",
              !.labels = IF d.plainT /\ style = "tasks" THEN @ ELSE <<>>]

InStyle(style, d) ==
    /\ style = "scripts" => d.plainS
    /\ style = "tasks" => d.plainT

At(kind) ==
    [AtNone EXCEPT !.kind = kind, !.depth = Len(doc.ctx),
                   !.inScripts = visitor.inScripts, !.inside = Inside]

\* An object begins: the visitor has no handler.
ObjectBegin(style) ==
    /\ ~doc.done
    /\ doc.ctx = <<>> \/ ValuePos
    /\ Len(doc.ctx) < MaxDepth
    /\ (style = "tasks" /\ ObjectRole = "entry") => doc.entries < MaxEntries
    /\ doc' = Norm(style, [doc EXCEPT
                  !.ctx = Append(@, ObjectRole), !.key = None,
                  !.plainS = @ /\ ObjectRole \in {"top", "scripts"},
                  !.hasS = @ \/ ObjectRole = "scripts",
                  !.plainT = @ /\ ObjectRole \in {"top", "entry"},
                  !.entries = IF ObjectRole = "entry" THEN @ + 1 ELSE @,
                  !.labelled = FALSE,
                  !.at = At("begin")])
    /\ InStyle(style, doc')
    /\ UNCHANGED visitor
    /\ UNCHANGED <<cacheVars, task, extVars, viewVars>>

\* An object ends: onObjectEnd.
ObjectEnd(style) ==
    /\ KeyPos
    /\ visitor' = onObjectEnd(visitor)
    /\ doc' = Norm(style, [doc EXCEPT !.ctx = Pop, !.key = None,
                                      !.done = Len(doc.ctx) = 1,
                                      !.at = At("end")])
    /\ UNCHANGED <<cacheVars, task, extVars, viewVars>>

\* An array begins: the visitor has no handler.
ArrayBegin(style) ==
    /\ ValuePos
    /\ Len(doc.ctx) < MaxDepth
    /\ doc' = Norm(style, [doc EXCEPT
                  !.ctx = Append(@, ArrayRole), !.key = None,
                  !.plainS = FALSE,
                  !.plainT = @ /\ ArrayRole = "tasks",
                  !.hasT = @ \/ ArrayRole = "tasks",
                  !.at = At("begin")])
    /\ InStyle(style, doc')
    /\ UNCHANGED visitor
    /\ UNCHANGED <<cacheVars, task, extVars, viewVars>>

\* An array ends: the visitor has no handler.
ArrayEnd(style) ==
    /\ ~doc.done /\ doc.ctx # <<>> /\ ~IsObject(Top)
    /\ doc' = Norm(style, [doc EXCEPT !.ctx = Pop, !.key = None,
                                      !.at = At("end")])
    /\ UNCHANGED visitor
    /\ UNCHANGED <<cacheVars, task, extVars, viewVars>>

\* A property name: onObjectProperty.
ObjectProperty(style, property) ==
    /\ KeyPos
    /\ visitor' = onObjectProperty(visitor, property)
    /\ doc' = Norm(style, [doc EXCEPT
                  !.key = property,
                  !.plainS = @ /\ (Top = "top" => property \in {"a", "scripts"}),
                  !.plainT = @ /\ (Top = "top" => property \in {"a", "tasks"})
                               /\ (Top = "entry" => property \in {"a", "label"})
                               /\ ~(property = "label" /\ doc.labelled),
                  !.labelled = @ \/ (Top = "entry" /\ property = "label"),
                  !.cancelled = visitor.inTaskLabel # None,
                  !.at = At("property")])
    /\ InStyle(style, doc')
    /\ UNCHANGED <<cacheVars, task, extVars, viewVars>>

\* The handler of a literal wrote to the map `scripts`.
Binds(v, value) ==
    v.inScripts \/ (v.inTaskLabel = "label" /\ value.str)

\* A literal value: onLiteralValue. The claims about every document speak
\* of whether a literal is bound, not of its value: these documents have
\* one string and one other literal.
LiteralValue(style, value) ==
    /\ ValuePos
    /\ style = "any" => value.v # "y"
    /\ visitor' = onLiteralValue(visitor, value)
    /\ doc' = Norm(style, [doc EXCEPT
                  !.key = None,
                  !.plainS = /\ @
                             /\ Top = "top" => doc.key # "scripts"
                             /\ Top = "scripts" => value.str,
                  !.want = IF Top = "scripts" THEN Put(@, doc.key, value) ELSE @,
                  !.plainT = @ /\ (Top = "top" => doc.key # "tasks")
                               /\ Top # "tasks",
                  !.labels = IF Top = "entry" /\ doc.key = "label" /\ value.str
                             THEN Append(@, value.v) ELSE @,
                  !.cancelled = FALSE,
                  !.late = @ \/ (/\ doc.error
                                  /\ Top = "scripts"
                                  /\ visitor.script = doc.key
                                  /\ Binds(visitor, value)),
                  !.at = [At("literal") EXCEPT
                             !.str = value.str,
                             !.bound = Binds(visitor, value),
                             !.cancelled = doc.cancelled]])
    /\ InStyle(style, doc')
    /\ UNCHANGED <<cacheVars, task, extVars, viewVars>>

\* The scanner reports an error: onError.
ScanError ==
    /\ ~doc.done
    /\ visitor' = onError(visitor)
    /\ doc' = Norm("any", [doc EXCEPT !.error = TRUE, !.at = At("error")])
    /\ UNCHANGED <<cacheVars, task, extVars, viewVars>>

\* Every document, Error events included.
ScanNext ==
    \/ ObjectBegin("any")
    \/ ObjectEnd("any")
    \/ ArrayBegin("any")
    \/ ArrayEnd("any")
    \/ \E property \in Names : ObjectProperty("any", property)
    \/ \E value \in Literals : LiteralValue("any", value)
    \/ ScanError
ScanSpec == Init /\ [][ScanNext]_vars

\* The well-formed documents of the scripts style.
ScriptsNext ==
    \/ ObjectBegin("scripts")
    \/ ObjectEnd("scripts")
    \/ \E property \in Names : ObjectProperty("scripts", property)
    \/ \E value \in Literals : LiteralValue("scripts", value)
ScriptsSpec == Init /\ [][ScriptsNext]_vars

\* The well-formed documents of the tasks-array style.
TasksNext ==
    \/ ObjectBegin("tasks")
    \/ ObjectEnd("tasks")
    \/ ArrayBegin("tasks")
    \/ ArrayEnd("tasks")
    \/ \E property \in Names : ObjectProperty("tasks", property)
    \/ \E value \in Literals : LiteralValue("tasks", value)
TasksSpec == Init /\ [][TasksNext]_vars

\* --------------------------------------------------------- materializing
\* readYarnfile lines 137-143: createYarnTask(each, `${each}`, folder, uri)
\* and task.group = TaskGroup.Build
Materialize ==
    /\ ~task.made
    /\ task' = [task EXCEPT
                  !.made = TRUE,
                  !.result = ReadTask(task.target, task.value,
                                      task.folder, task.uri)]
    /\ UNCHANGED <<cacheVars, visitor, doc, extVars, viewVars>>

TaskNext == Materialize
TaskSpec == TaskInit /\ [][TaskNext]_vars

\* -------------------------------------------------------- the extension
restVars == <<cacheVars, visitor, doc, task, viewVars>>

\* activate(context): registerFileWatchers, the status bar item with its
\* idle text, and the listeners of the task and configuration events.
Activate ==
    /\ ~statusBarItem.defined
    /\ watchers' = registerFileWatchers(watchers, config)
    /\ statusBarItem' = [defined |-> TRUE, text |-> <<"$(gear) Task Explorer">>]
    /\ obs' = [obs EXCEPT !.last = NoLast, !.task = ""]
    /\ UNCHANGED <<runningTasks, config, restVars>>

\* tasks.onDidStartTask / onDidEndTask: updateStatusBarItem(task, running)
TaskEvent(t, isRunning) ==
    /\ statusBarItem.defined
    /\ isRunning => Len(runningTasks) < MaxRunning
    /\ LET r == updateStatusBarItem(runningTasks, statusBarItem, t, isRunning)
       IN  /\ runningTasks' = r.runningTasks
           /\ statusBarItem' = r.item
    /\ obs' = [obs EXCEPT
                 !.last = NoLast,
                 !.task = IF t.type = "$composite" THEN "composite"
                          ELSE IF isRunning THEN "start"
                          ELSE IF obs.open[t.id] > 0 THEN "end"
                          ELSE "stray",
                 !.open = IF t.type = "$composite" THEN @
                          ELSE [@ EXCEPT ![t.id] =
                                   IF isRunning THEN @ + 1
                                   ELSE IF @ > 0 THEN @ - 1 ELSE 0]]
    /\ UNCHANGED <<watchers, config, restVars>>

\* workspace.onDidChangeConfiguration for the setting enable<d>:
\* processConfigChanges with the new value.
ConfigChange(d) ==
    /\ statusBarItem.defined
    /\ obs.changes < MaxChanges
    /\ config' = [config EXCEPT ![d] = ~@]
    /\ watchers' = processConfigChanges(watchers, config', d)
    /\ obs' = [obs EXCEPT
                 !.changes = @ + 1,
                 !.last = NoLast,
                 !.task = "",
                 !.status[d] = IF ~config'[d] THEN "disabled"
                               ELSE IF @ = "disabled" THEN "reenabled"
                               ELSE @]
    /\ UNCHANGED <<runningTasks, statusBarItem, restVars>>

\* A file that matches blob is changed, deleted or created: the listeners
\* of the watchers on the blob run.
FileEvent(blob, kind) ==
    /\ statusBarItem.defined
    /\ obs' = [obs EXCEPT !.task = "",
                           !.last = [on |-> TRUE, blob |-> blob, kind |-> kind,
                                     tags |-> Refreshes(watchers, blob, kind)]]
    /\ UNCHANGED <<runningTasks, statusBarItem, watchers, config, restVars>>

StatusNext ==
    \/ Activate
    \/ \E t \in RunTasks : TaskEvent(t, TRUE)
    \/ \E t \in RunTasks : TaskEvent(t, FALSE)
StatusSpec == Init /\ [][StatusNext]_vars

WatchNext ==
    \/ Activate
    \/ \E d \in Dialects : ConfigChange(d)
    \/ \E blob \in Blobs : \E kind \in Kinds : FileEvent(blob, kind)
WatchSpec == WatchInit /\ [][WatchNext]_vars

\* --------------------------------------------------------- the task view
otherVars == <<cacheVars, visitor, doc, task, extVars>>

\* getChildren(): the tree is built from the fetched tasks when it is null.
GetChildren ==
    /\ ~taskTree.built
    /\ taskTree' = buildTaskTree(fetchTasks(packageFiles))
    /\ shown' = NoShown
    /\ UNCHANGED <<packageFiles, runs, otherVars>>

\* refresh(): this.taskTree = null
Refresh ==
    /\ taskTree.built
    /\ taskTree' = Null
    /\ shown' = NoShown
    /\ UNCHANGED <<packageFiles, runs, otherVars>>

\* The user edits, creates or deletes the package file of a directory.
EditPackage(q, f) ==
    /\ packageFiles[q] # f
    /\ packageFiles' = [packageFiles EXCEPT ![q] = f]
    /\ shown' = NoShown
    /\ UNCHANGED <<taskTree, runs, otherVars>>

\* runScript(script) up to its await: getScripts(uri) is called for the
\* task of the item of the tree.
RunScriptStart(t) ==
    /\ t \in taskTree.items
    /\ BagCardinality(runs) < MaxPending
    /\ runs' = runs (+) SetToBag({t})
    /\ shown' = NoShown
    /\ UNCHANGED <<packageFiles, taskTree, otherVars>>

\* runScript(script) from its await: the scripts of the file arrive; the
\* task is executed when scriptIsValid, else scriptNotValid shows the error.
RunScriptResume(t) ==
    /\ BagIn(t, runs)
    /\ runs' = runs (-) SetToBag({t})
    /\ LET scripts == getScripts(packageFiles, t)
           valid == scriptIsValid(scripts, t)
       IN  shown' = [op |-> "runScript", task |-> t,
                     file |-> packageFiles[t.definition.path],
                     executed |-> valid,
                     message |-> IF valid THEN NoMessage ELSE scriptNotValid(t)]
    /\ UNCHANGED <<packageFiles, taskTree, otherVars>>

ViewNext ==
    \/ GetChildren
    \/ Refresh
    \/ \E q \in PackagePaths : \E f \in PackageStates : EditPackage(q, f)
    \/ \E t \in taskTree.items : RunScriptStart(t)
    \/ \E t \in BagToSet(runs) : RunScriptResume(t)
ViewSpec == ViewStart /\ [][ViewNext]_vars

\* ================================================================ claims
IsGetAllCall  == ev.op = "getAll" /\ ev.call
IsInvalidateReturn == ev.op = "invalidate" /\ ev.done /\ ev.file # None
Range(seq) == {seq[i] : i \in 1..Len(seq)}

\* C1 (as stated): when getAll calls are issued one after another from an
\* uninitialized cache with no invalidate in between, a call runs the
\* discovery pass exactly when it is the first of them.
C1_DiscoveryOnFirstCallOnly ==
    (IsGetAllCall /\ ev.hist.uninit) => (ev.discovery <=> ev.hist.passes = 0)

\* C1 (amended): in such a sequence a call runs the discovery pass exactly
\* when no earlier pass of the sequence has completed without error (a pass
\* that fails leaves the cache uninitialized and the next call runs discovery
\* again); at most one pass completes, and every call after it returns the
\* cached sequence, empty or not, and leaves the cache as it is.
C1_DiscoveryUntilFirstSuccess ==
    /\ hist.uninit => hist.ok <= 1
    /\ (IsGetAllCall /\ ev.hist.uninit) =>
          /\ ev.discovery <=> ev.hist.ok = 0
          /\ ~ev.discovery =>
                /\ ev.done /\ ev.status = "ok"
                /\ ev.value = cachedTasks.arr
                /\ ev.before = cachedTasks

\* C1 witness: a later call of the sequence is served an empty cached list.
C1_Witness ==
    /\ IsGetAllCall /\ ev.hist.uninit /\ ev.hist.ok = 1
    /\ ~ev.discovery /\ ev.value = <<>>

\* C2: at most one getAll call is inside a discovery pass at any time.
C2_OnePassInFlight ==
    \A c, d \in InFlight :
        (c.kind = "getAll" /\ d.kind = "getAll") =>
            (c = d /\ CopiesIn(c, calls) = 1)

\* C3: the cache never holds two tasks with the same source file path and
\* the same target name.
C3_NoDuplicateTask ==
    \A i, j \in 1..Len(cachedTasks.arr) :
        cachedTasks.arr[i] = cachedTasks.arr[j] => i = j

\* C4: with calls issued one after another, the getAll that follows a
\* completed invalidate(A), whose cache held at least one task of another
\* file, is served from the cache, returns exactly the other files' tasks as
\* they were plus one task per target of A's content, each once, and reads
\* no file; the invalidate itself read no file but A.
C4_RoundTrip ==
    /\ (IsInvalidateReturn /\ ev.status = "ok") => ev.reads \subseteq {ev.file}
    /\ (/\ IsGetAllCall
        /\ ev.hist.expect.on
        /\ \E t \in ev.hist.expect.tasks : t.uri # ev.hist.expect.file) =>
          /\ ev.done /\ ev.status = "ok" /\ ~ev.discovery
          /\ Range(ev.value) = ev.hist.expect.tasks
          /\ Len(ev.value) = Cardinality(ev.hist.expect.tasks)
          /\ ev.reads = {}

\* C4 witness: such a getAll, after A was edited to another target set.
C4_Witness ==
    /\ IsGetAllCall /\ ev.hist.expect.on /\ ev.hist.expect.file = "A"
    /\ \E t \in ev.hist.expect.tasks : t.uri = "B"
    /\ [uri |-> "A", script |-> "test"] \in Range(ev.value)
    /\ ev.value = cachedTasks.arr

\* C5: invalidate(f) for a file that is not on disk leaves in the cache
\* exactly the tasks of the other files, in the order they had.
C5_RemovalFrame ==
    (IsInvalidateReturn /\ ev.call /\ ev.before.defined) =>
        cachedTasks.arr = NotOfFile(ev.before.arr, ev.file)

\* C5 witness: such an invalidate with two tasks of f cached before a task
\* of another file.
C5_Witness ==
    /\ IsInvalidateReturn /\ ev.call /\ ev.before.defined
    /\ ~disk[ev.file].exists
    /\ Len(OfFile(ev.before.arr, ev.file)) = 2
    /\ Len(cachedTasks.arr) > 0
    /\ ev.before.arr[1].uri = ev.file

\* C6: the first getAll issued after invalidate() has returned runs a
\* discovery pass (it is not served a list computed earlier).
C6_RediscoverAfterReset ==
    (IsGetAllCall /\ ev.hist.reset) => ev.discovery

\* C7: when invalidate(f) was issued while a pass was in flight that had
\* read f before its last edit, then once no call is in flight the cached
\* tasks of f are those of f's content at the invalidation.
C7_InvalidationNotLost ==
    \A f \in hist.inval :
        (calls = EmptyBag /\ cachedTasks.defined) =>
            OfFile(cachedTasks.arr, f) = Tasks(f, disk[f].content)

\* C8: when invalidate(f) has returned normally, the cache holds a task or
\* is uninitialized: it is never an initialized empty list.
C8_EmptyCollapses ==
    (IsInvalidateReturn /\ ev.status = "ok") =>
        (cachedTasks.defined => Len(cachedTasks.arr) > 0)

\* C8 witness: an invalidate(f) that resumed from its read with nothing to
\* keep and left the cache uninitialized.
C8_Witness ==
    /\ IsInvalidateReturn /\ ~ev.call /\ ev.status = "ok"
    /\ ~cachedTasks.defined

\* C9: with calls issued one after another, a call that fails leaves the
\* cache equal to the cache it started from.
C9_FailureLeavesCache ==
    (ev.done /\ ev.status = "error") => cachedTasks = ev.before

\* C10: an invalidate(f) that returns with f deleted has returned normally,
\* and no task of f is cached.
C10_DeletedIsNoError ==
    (IsInvalidateReturn /\ ~disk[ev.file].exists) =>
        (ev.status = "ok" /\ OfFile(cachedTasks.arr, ev.file) = <<>>)

IsPassReturn == ev.op = "getAll" /\ ev.done /\ ev.discovery /\ ev.status = "ok"

\* C11: the task list a discovery pass returns holds no task of a file
\* whose path matches an exclude glob, also when the enumeration returned
\* the file and the file holds targets.
C11_NoExcludedTask ==
    IsPassReturn => \A t \in Range(ev.value) : ~isExcluded(t.uri)

\* A pass returns tasks after its enumeration returned an excluded file.
C11_Witness ==
    /\ IsPassReturn
    /\ \E f \in ev.enum : isExcluded(f)
    /\ ev.value # <<>>

\* C19: within one discovery pass no file is read twice and the returned
\* list holds no task twice, also for a file that several enumerations, or
\* one enumeration several times, returned.
C19_ReadOncePerPass ==
    IsPassReturn =>
        /\ ~ev.reread
        /\ \A i, j \in 1..Len(ev.value) : ev.value[i] = ev.value[j] => i = j

\* A pass returns the tasks of a file that was enumerated more than once.
C19_Witness ==
    /\ IsPassReturn
    /\ \E f \in ev.again : f \in ev.reads /\ OfFile(ev.value, f) # <<>>

\* C20: when the enumeration of a folder fails, the getAll call fails, no
\* task list is returned and cachedTasks stays undefined.
C20_EnumerationFailureFailsCall ==
    (ev.op = "getAll" /\ ev.done /\ ev.at = "find") =>
        /\ ev.status = "error"
        /\ ev.value = <<>>
        /\ ~cachedTasks.defined

\* The enumeration of a later folder fails after a folder gave tasks.
C20_Witness ==
    /\ ev.op = "getAll" /\ ev.done /\ ev.at = "find"
    /\ ev.status = "error"
    /\ ev.partial # <<>>

\* C12: when the scan of a well-formed scripts-style document ends, the map
\* returned holds exactly the keys of the scripts object, each with the
\* literal of its last occurrence, whatever the keys are named.
C12_ScriptsKeysExtracted ==
    (doc.done /\ doc.plainS /\ doc.hasS) => visitor.scripts = doc.want

\* C13: when the scan of a well-formed tasks-array document ends, the names
\* of the targets returned are exactly the string labels of the entries.
C13_LabelsExtracted ==
    (doc.done /\ doc.plainT /\ doc.hasT) =>
        DOMAIN visitor.scripts = Range(doc.labels)

\* C14: no target is bound from an event that follows an Error event, so
\* the map returned is the map as it was when the error came: no key of
\* the scripts object that follows the error is bound to its value.
C14_NothingBoundAfterError == ~doc.late

\* C16: at every property and literal event, inScripts is true exactly
\* when the event comes inside an object that is the value of a "scripts"
\* property.
C16_InScriptsIffInsideScripts ==
    doc.at.kind \in {"property", "literal"} =>
        (doc.at.inScripts <=> doc.at.inside)

\* C17: a property event turns inScripts on only at the top level of the
\* document.
C17_OnlyTopLevelStartsScripts ==
    (doc.at.kind = "property" /\ visitor.inScripts /\ ~doc.at.inScripts) =>
        doc.at.depth = 1

\* C18: after a property event that came while a label was pending, the
\* next string literal binds no target.
C18_PropertyCancelsLabel ==
    (doc.at.kind = "literal" /\ doc.at.str /\ doc.at.cancelled) =>
        ~doc.at.bound

\* dir is the directory that holds the file at path: path is dir, a
\* separator unless dir is the root, and one segment.
IsDirectoryOf(dir, path) ==
    \E n \in PathNames :
        path = (IF dir = <<"/">> THEN dir ELSE dir \o <<"/">>) \o <<n>>

C22_RunnerIndependentOfContent ==
    task.made =>
        \A v \in Values :
            LET other == ReadTask(task.target, v, task.folder, task.uri)
            IN  /\ other.execution.command = task.result.execution.command
                /\ other.execution.args[1] = task.result.execution.args[1]
                /\ Len(task.result.execution.args) = 2
                /\ task.result.execution.args[2] = task.target

\* A task is materialized for a target the file binds to "y".
C22_Witness ==
    /\ task.made
    /\ task.value = "y"
    /\ task.result.execution.command = "npx"
    /\ task.result.execution.args[1] = "yarn"

\* C23: a materialized task whose target name contains "clean", "pre" or
\* "post" is in the Clean group (and its tree item has the icon of that
\* group).
C23_CleanNamesInCleanGroup ==
    (task.made /\ task.target \in CleanNames) =>
        /\ task.result.group = "Clean"
        /\ NpmScript(task.result).iconPath = "prepostscript.svg"

\* C24: an invalidate(f) that was suspended at the read of f while
\* invalidate() ran, and whose file is still there, returns normally when
\* it resumes.
C24_ResumeAfterResetCompletes ==
    (/\ ev.op = "invalidate" /\ ev.done /\ ~ev.call
     /\ ev.wasReset
     /\ disk[ev.file].exists) => ev.status = "ok"

\* C25: no cached task is a task of a file whose path matches an exclude
\* glob.
C25_NoExcludedTaskCached ==
    cachedTasks.defined =>
        \A t \in Range(cachedTasks.arr) : ~isExcluded(t.uri)

\* The files that have a task in a task sequence.
FilesOf(tasks) == {tasks[i].uri : i \in 1..Len(tasks)}

\* C26: when invalidate(f) returns for a file f whose targets are as they
\* were cached, with tasks of two files or more cached at the call, the
\* cache holds the task sequence it held at the call, so a getAll after it
\* returns what a getAll before it returned.
C26_UnchangedFileKeepsSequence ==
    (/\ IsInvalidateReturn /\ ev.status = "ok"
     /\ ev.before.defined
     /\ Cardinality(FilesOf(ev.before.arr)) >= 2
     /\ disk[ev.file].exists
     /\ OfFile(ev.before.arr, ev.file) = Tasks(ev.file, disk[ev.file].content))
        => (cachedTasks.defined /\ cachedTasks.arr = ev.before.arr)

\* C27: with no call in flight the cache is never an empty array, and a
\* getAll that returns an empty list has run a discovery pass.
C27_EmptyOnlyFromDiscovery ==
    /\ calls = EmptyBag => ~(cachedTasks.defined /\ cachedTasks.arr = <<>>)
    /\ (ev.op = "getAll" /\ ev.done /\ ev.status = "ok" /\ ev.value = <<>>)
          => ev.discovery
\* The entries of the running-task list that are the task id.
Running(id) == {k \in 1..Len(runningTasks) : runningTasks[k].id = id}

\* C28: after any start and end events the running-task list has one entry
\* per start event of a non-composite task not yet matched by an end event
\* of the task (an end event without a start changes nothing, a composite
\* task is never recorded), and the status bar shows the idle text for an
\* empty list, "1 task running" for one entry and "N tasks running" for
\* N > 1 entries.
C28_RunningListAndStatusText ==
    statusBarItem.defined =>
        /\ \A id \in PlainIds : Cardinality(Running(id)) = obs.open[id]
        /\ \A k \in 1..Len(runningTasks) : runningTasks[k].type # "$composite"
        /\ Len(runningTasks) = 0 =>
               statusBarItem.text = <<"$(gear) Task Explorer">>
        /\ Len(runningTasks) = 1 =>
               statusBarItem.text = <<"$(gear) 1 task running">>
        /\ Len(runningTasks) > 1 =>
               statusBarItem.text =
                   <<"$(gear) ", ToString(Len(runningTasks)), " tasks running">>

\* An end event of a task that is not running arrives while a task runs
\* twice and another once.
C28_Witness ==
    /\ obs.task = "stray"
    /\ Len(runningTasks) = 3
    /\ \E id \in PlainIds : Cardinality(Running(id)) = 2
    /\ statusBarItem.text = <<"$(gear) ", "3", " tasks running">>

\* The dialects whose files match the blob of the last file event.
Matched == {d \in Dialects : Blob(d) = obs.last.blob}

\* A kind of event the dialect listens to: a script type dialect (bash)
\* registers no change listener.
Listened(d, kind) == ~(d = "bash" /\ kind = "change")

\* C29: after a dialect was disabled by a configuration change a create,
\* change or delete event of its files triggers no tree refresh, and after
\* it was enabled again each such event triggers exactly one refresh.
C29_DisabledSilentReenabledOnce ==
    obs.last.on =>
        \A d \in Matched :
            /\ obs.status[d] = "disabled" => obs.last.tags = <<>>
            /\ (obs.status[d] = "reenabled" /\ Listened(d, obs.last.kind)) =>
                   Len(obs.last.tags) = 1

\* C30: after the registration every enabled dialect has a watcher on its
\* own filename pattern, and every notification passed to refreshTree has
\* the tag of the dialect whose pattern matched the file.
C30_OwnPatternOwnTag ==
    statusBarItem.defined =>
        /\ \A d \in Dialects :
               config[d] => \E k \in TaskTypes :
                                watchers[k].defined /\ watchers[k].blob = Blob(d)
        /\ obs.last.on =>
               \A d \in Matched : \A i \in 1..Len(obs.last.tags) :
                   obs.last.tags[i] = d

\* C31: runScript executes a task only if the package file of the task,
\* as it is when the request reads it, still has a script whose task name
\* is the name of the task; otherwise it shows the script as not valid and
\* starts no execution.
C31_RunOnlyValidScript ==
    shown.op = "runScript" =>
        LET t == shown.task
            present == /\ shown.file.exists
                       /\ \E k \in shown.file.scripts :
                              getTaskName(k, t.definition.path) = t.name
        IN  /\ shown.executed <=> present
            /\ shown.executed => shown.message = NoMessage
            /\ ~shown.executed =>
                   shown.message = [key |-> "scriptInvalid", arg |-> t.name]

\* The item of a script of the directory s is run after the script was
\* taken out of the file, which still has another script.
C31_Witness ==
    /\ shown.op = "runScript"
    /\ shown.task.name = <<"build", " - ", "s">>
    /\ shown.file = Package({"test"})
    /\ ~shown.executed
    /\ shown.message.key = "scriptInvalid"

====
